---- MODULE Spec2Model ----
(***************************************************************************)
(* Model of genologics/epp.py (class CopyField) and scripts/copy_qubit.py  *)
(* (function main).                                                        *)
(*                                                                         *)
(* One run of the model is one of three programs, chosen by `script`:      *)
(*   "copy"  - a script run that loops over destination elements,          *)
(*             building one CopyField per destination and calling          *)
(*             copy_udf on it;                                             *)
(*   "get"   - CopyField._get_field applied to a drawn element and name;   *)
(*   "qubit" - main() of copy_qubit.py looping over its target files.      *)
(*                                                                         *)
(* Field values are abstract tokens 1..MaxVal; Python's None is token 0.   *)
(* The timestamp of a changelog line is left out of the line's record.     *)
(* Concentrations are fixed-point numbers, in millionths.                  *)
(***************************************************************************)
EXTENDS Integers, Sequences, FiniteSets, TLC

\* ---------------------------------------------------------------- bounds
MaxVal == 2
MaxCalls == 2
MaxFiles == 2

\* ------------------------------------------------------------- constants
NoneVal == 0

Vals == 1 .. MaxVal
Elts == {"a", "b"}
Dests == <<"a", "b">>
UdfNames == {"conc", "name"}
NotGiven == "<not given>"
DestArgs == UdfNames \cup {NotGiven, ""}
PutOutcomes == {"ok", "TypeError", "HTTPError"}

\* The UDF mappings an element can hold: a value for some of the names.
MapsOver(names) == UNION {[S -> Vals] : S \in SUBSET names}
UdfMaps == MapsOver(UdfNames)

\* The native attributes of the elements of a copy run: each has `name`, and
\* either none or every one has an attribute that is called `field`.
AttrMaps == {[e \in Elts |-> [name |-> 1]], [e \in Elts |-> [name |-> 1, field |-> 1]]}

\* The names and attributes _get_field is tried on.
GetNames == {"conc", "name", "field"}
GetAttrMaps == MapsOver({"name", "field"})

VARIABLES script, udf, attr, remote, puts, changelog, log, stderr,
          cf, ret, pc, exit_status, args, todo, calls, ext, got,
          put_result, qc_flag, samples, qubit_result_file, logg

vars == <<script, udf, attr, remote, puts, changelog, log, stderr,
          cf, ret, pc, exit_status, args, todo, calls, ext, got,
          put_result, qc_flag, samples, qubit_result_file, logg>>

\* The variables only copy_qubit.py uses.
qvars == <<qc_flag, samples, qubit_result_file, logg>>

\* ---------------------------------------------------------------- helpers
\* m with key k set to v (dict item assignment).
SetItem(m, k, v) == [x \in DOMAIN m \cup {k} |-> IF x = k THEN v ELSE m[x]]

\* Python truthiness of the d_udf_name argument: None and '' are falsy.
Truthy(name) == name \notin {NotGiven, ""}

\* sys.exit(-1): the status the operating system reports.
ExitStatus(code) == code % 256

\* ------------------------------------------------------------- CopyField
\* CopyField._get_field: the UDF mapping first, else the attribute that is
\* literally called `field`, else None.
_get_field(u, a, field) ==
    IF field \in DOMAIN u
    THEN u[field]
    ELSE IF "field" \in DOMAIN a THEN a["field"] ELSE NoneVal

\* Mutant of ResolveName: the default is never applied.
ResolveNameNoDefault(s_field_name, d_udf_name) == d_udf_name

\* The first two lines of __init__: the destination name defaults to the source's.
ResolveName(s_field_name, d_udf_name) ==
    IF ~Truthy(d_udf_name) THEN s_field_name ELSE d_udf_name

\* CopyField.__init__
CopyField(s_elt, d_elt, s_field_name, d_udf_name) ==
    LET dn == ResolveName(s_field_name, d_udf_name) IN
    [s_elt |-> s_elt,
     s_field_name |-> s_field_name,
     s_field |-> _get_field(udf[s_elt], attr[s_elt], s_field_name),
     d_elt |-> d_elt,
     d_udf_name |-> dn,
     old_dest_udf |-> _get_field(udf[d_elt], attr[d_elt], dn)]

\* Mutant of Changed: the comparison is inverted.
ChangedInverted(c) == c.s_field = c.old_dest_udf

\* Mutant of Changed: the destination is read again instead of using the snapshot.
ChangedReread(c) ==
    c.s_field # _get_field(udf[c.d_elt], attr[c.d_elt], c.d_udf_name)

\* The test of copy_udf: the two values captured by __init__ differ.
Changed(c) == c.s_field # c.old_dest_udf

\* Mutant of ChangelogLine: the old and the new value change places.
ChangelogLineSwapped(c) ==
    [s_udf |-> c.s_field_name, sn |-> attr[c.d_elt]["name"], si |-> c.d_elt,
     su |-> c.s_field, nv |-> c.old_dest_udf]

\* The line _log_before_change writes to the changelog.
ChangelogLine(c) ==
    [s_udf |-> c.s_field_name, sn |-> attr[c.d_elt]["name"], si |-> c.d_elt,
     su |-> c.old_dest_udf, nv |-> c.s_field]

\* _log_before_change: the changelog after it.
LogBeforeChangelog(c, changelog_f) ==
    IF changelog_f THEN Append(changelog, ChangelogLine(c)) ELSE changelog

\* _log_before_change: its logging.info record.
LogBeforeRecord(c) == [msg |-> "Copying", from |-> c.s_elt, to |-> c.d_elt]

\* _log_after_change: its logging.info record.
LogAfterRecord(c) ==
    [msg |-> "Updated", d_udf |-> c.d_udf_name, su |-> c.old_dest_udf,
     nv |-> c.s_field, to |-> c.d_elt]

\* elt.put(): the element's state on the server after the call.
Put(elt, local, outcome) ==
    IF outcome = "ok" THEN [remote EXCEPT ![elt] = local] ELSE remote

\* Mutant of SetUdfLocal: the value is stored under the source's field name.
SetUdfLocalSourceName(c) == SetItem(udf[c.d_elt], c.s_field_name, c.s_field)

\* The first line of _set_udf: the destination's UDF mapping after it.
SetUdfLocal(c) == SetItem(udf[c.d_elt], c.d_udf_name, c.s_field)

\* Mutant of SetUdfFailed: the error is reported, but without sys.exit the
\* method returns False and copy_udf goes on.
SetUdfFailedNoExit(c, e) ==
    /\ stderr' = Append(stderr, [file |-> c.d_elt, by |-> "put", e |-> e])
    /\ log' = Append(Append(log, LogBeforeRecord(c)), LogAfterRecord(c))
    /\ ret' = "False"
    /\ UNCHANGED <<pc, exit_status>>

\* What _set_udf does when put() raised e, a TypeError or an HTTPError: the
\* message goes to stderr and sys.exit(-1) ends the process, so copy_udf
\* returns nothing and _log_after_change is not reached.
SetUdfFailed(c, e) ==
    /\ stderr' = Append(stderr, [file |-> c.d_elt, by |-> "put", e |-> e])
    /\ pc' = "exited"
    /\ exit_status' = ExitStatus(-1)
    /\ log' = Append(log, LogBeforeRecord(c))
    /\ ret' = ret

\* What copy_udf does after _set_udf returned True: _log_after_change, and
\* the return of that True.
SetUdfReturned(c) ==
    /\ log' = Append(Append(log, LogBeforeRecord(c)), LogAfterRecord(c))
    /\ ret' = "True"
    /\ UNCHANGED <<stderr, pc, exit_status>>

\* Mutant of AfterCopy: copy_udf refreshes the snapshot with the copied value.
AfterCopyRefreshed(c) == [c EXCEPT !.old_dest_udf = c.s_field]

\* The CopyField after copy_udf: the method assigns no attribute of self.
AfterCopy(c) == c

\* ------------------------------------------------------------------ actions
\* The script builds the CopyField of the next destination element.
Construct ==
    /\ pc = "run"
    /\ cf = <<>>
    /\ todo # <<>>
    /\ cf' = <<CopyField(args.s_elt, Head(todo), args.s_field_name, args.d_udf_name)>>
    /\ todo' = Tail(todo)
    /\ calls' = 0
    /\ UNCHANGED <<udf, attr, remote, puts, changelog, log, stderr, ret, pc,
                   exit_status, args, ext, got, script, put_result, qvars>>

\* Another writer changes the destination field after __init__ took its
\* snapshot and before copy_udf runs: on the server, or on the element object.
ExternalWrite ==
    /\ pc = "run"
    /\ cf # <<>>
    /\ calls = 0
    /\ ext = <<>>
    /\ \E v \in Vals, where \in {"server", "object"} :
        LET c == cf[1] IN
        /\ IF where = "server"
           THEN /\ remote' = [remote EXCEPT ![c.d_elt] = SetItem(@, c.d_udf_name, v)]
                /\ udf' = udf
           ELSE /\ udf' = [udf EXCEPT ![c.d_elt] = SetItem(@, c.d_udf_name, v)]
                /\ remote' = remote
        /\ ext' = <<[where |-> where, elt |-> c.d_elt, v |-> v]>>
    /\ UNCHANGED <<attr, puts, changelog, log, stderr, cf, ret, pc, exit_status,
                   args, todo, calls, got, script, put_result, qvars>>

\* CopyField.copy_udf(changelog_f), with the outcome of put() drawn.
CopyUdf ==
    /\ pc = "run"
    /\ cf # <<>>
    /\ calls < MaxCalls
    /\ calls' = calls + 1
    /\ LET c == cf[1] IN
       IF Changed(c)
       THEN \E outcome \in PutOutcomes :
              LET local == SetUdfLocal(c) IN
              /\ changelog' = LogBeforeChangelog(c, args.changelog_f)
              /\ udf' = [udf EXCEPT ![c.d_elt] = local]
              /\ puts' = [puts EXCEPT ![c.d_elt] = @ + 1]
              /\ put_result' = outcome
              /\ remote' = Put(c.d_elt, local, outcome)
              /\ IF outcome = "ok" THEN SetUdfReturned(c) ELSE SetUdfFailed(c, outcome)
       ELSE /\ ret' = "False"
            /\ UNCHANGED <<udf, remote, puts, put_result, changelog, log, stderr, pc,
                           exit_status>>
    /\ cf' = <<AfterCopy(cf[1])>>
    /\ UNCHANGED <<attr, args, todo, ext, got, script, qvars>>

\* The script is done with this CopyField and goes on to the next destination.
Discard ==
    /\ pc = "run"
    /\ cf # <<>>
    /\ calls >= 1
    /\ cf' = <<>>
    /\ UNCHANGED <<udf, attr, remote, puts, changelog, log, stderr, ret, pc,
                   exit_status, args, todo, calls, ext, got, script, put_result, qvars>>

\* The loop is over: the script ends normally.
Finish ==
    /\ pc = "run"
    /\ cf = <<>>
    /\ todo = <<>>
    /\ pc' = "done"
    /\ UNCHANGED <<udf, attr, remote, puts, changelog, log, stderr, cf, ret,
                   exit_status, args, todo, calls, ext, got, script, put_result, qvars>>


\* ------------------------------------------------------- _get_field alone
\* _get_field(elt, field) on the drawn element args.s_elt and name args.s_field_name.
GetField ==
    /\ pc = "get"
    /\ got' = _get_field(udf[args.s_elt], attr[args.s_elt], args.s_field_name)
    /\ pc' = "got"
    /\ UNCHANGED <<script, udf, attr, remote, puts, changelog, log, stderr, cf, ret,
                   exit_status, args, todo, calls, ext, put_result, qvars>>

\* ------------------------------------------------------------ copy_qubit.py
Files == 1 .. MaxFiles
SampleNames == {"S1", "S2"}
OutOfRange == <<"O", "u", "t", " ", "O", "f", " ", "R", "a", "n", "g", "e">>
NumberTexts == {<<"5", "0", "0">>, <<"1", "2", ".", "5">>, <<"0">>}
ConcTexts == {OutOfRange} \cup NumberTexts
UnitTexts == {"ng/mL", "ug/mL"}
DigitChars == <<"0", "1", "2", "3", "4", "5", "6", "7", "8", "9">>
Scale == 1000 * 1000

\* The rows format_csv_file can give a sample: without a "Sample Concentration"
\* entry, or with one holding (conc, unit).
Measurements ==
    {[has |-> FALSE, conc |-> <<>>, unit |-> ""]}
    \cup [has : {TRUE}, conc : ConcTexts, unit : UnitTexts]

\* The UDFs a target file starts with: none, or an earlier measurement.
EmptyMap == [x \in {} |-> 0]
StartUdfs ==
    {EmptyMap,
     [x \in {"Concentration", "Conc. Units"} |->
        IF x = "Concentration" THEN 7 * Scale ELSE "ug/mL"]}

IsDigit(ch) == \E i \in 1 .. Len(DigitChars) : DigitChars[i] = ch
DigitOf(ch) == (CHOOSE i \in 1 .. Len(DigitChars) : DigitChars[i] = ch) - 1

RECURSIVE Whole(_)
\* The number a run of digits writes.
Whole(t) == IF t = <<>> THEN 0 ELSE 10 * Whole(SubSeq(t, 1, Len(t) - 1)) + DigitOf(t[Len(t)])

RECURSIVE Pow10(_)
Pow10(n) == IF n = 0 THEN 1 ELSE 10 * Pow10(n - 1)

\* Python's float() on the texts modelled here: digits with at most one point
\* and at most six digits after it. ok is FALSE where float() raises ValueError.
float(t) ==
    LET points == {i \in 1 .. Len(t) : t[i] = "."}
        p == IF points = {} THEN Len(t) + 1 ELSE CHOOSE i \in points : TRUE
        int == SubSeq(t, 1, p - 1)
        frac == SubSeq(t, p + 1, Len(t))
        digits == int \o frac
    IN  IF /\ Cardinality(points) <= 1
           /\ digits # <<>>
           /\ \A i \in 1 .. Len(digits) : IsDigit(digits[i])
           /\ Len(frac) <= 6
        THEN [ok |-> TRUE,
              val |-> Whole(int) * Scale + Whole(frac) * (Scale \div Pow10(Len(frac)))]
        ELSE [ok |-> FALSE, val |-> 0]

\* Mutant of Normalise: the division is done whatever the unit.
NormaliseAnyUnit(conc, unit) == float(conc).val \div 1000

\* Lines 54-56: the number stored for (conc, unit).
Normalise(conc, unit) ==
    IF unit = "ng/mL" THEN float(conc).val \div 1000 ELSE float(conc).val

\* Lines 57-58 on a UDF mapping.
StoreConcentration(u, conc, unit) ==
    [x \in DOMAIN u \cup {"Concentration", "Conc. Units"} |->
        IF x = "Concentration" THEN Normalise(conc, unit)
        ELSE IF x = "Conc. Units" THEN "ng/ul"
        ELSE u[x]]

\* Lines 50-53: the qc flag for conc.
QcFlagFor(conc) == IF conc = OutOfRange THEN "FAILED" ELSE "PASSED"

\* target_file.put(): the file's state on the server after the call.
PutFile(f, u, qc, outcome) ==
    IF outcome = "ok" THEN [remote EXCEPT ![f] = [udf |-> u, qc_flag |-> qc]] ELSE remote

\* Line 63: what the except clause writes, for the exception it caught: the
\* one put() raised, or the TypeError of subscripting the logging module on
\* line 61 after a put() that succeeded.
CaughtError(f, outcome) ==
    IF outcome = "ok"
    THEN [file |-> f, by |-> "logging[...]", e |-> "TypeError"]
    ELSE [file |-> f, by |-> "put", e |-> outcome]

\* Mutant of AfterPut: a put() that failed ends the run, as _set_udf does.
AfterPutFatal(f, outcome) ==
    /\ stderr' = Append(stderr, CaughtError(f, outcome))
    /\ IF outcome = "ok"
       THEN /\ todo' = Tail(todo)
            /\ UNCHANGED <<pc, exit_status>>
       ELSE /\ pc' = "q_crashed"
            /\ exit_status' = ExitStatus(-1)
            /\ todo' = todo

\* Lines 59-63 and the step to the next file: what follows a put() call.
AfterPut(f, outcome) ==
    /\ stderr' = Append(stderr, CaughtError(f, outcome))
    /\ todo' = Tail(todo)
    /\ UNCHANGED <<pc, exit_status>>

\* One pass of the loop of lines 44-67, on the next target file.
ProcessFile ==
    /\ pc = "q_loop"
    /\ todo # <<>>
    /\ LET f == Head(todo)
           sample == samples[f]
       IN  IF sample \notin DOMAIN qubit_result_file
           THEN /\ logg' = [logg EXCEPT !.missing = Append(@, sample)]
                /\ todo' = Tail(todo)
                /\ UNCHANGED <<udf, remote, puts, put_result, qc_flag, stderr, pc, exit_status>>
           ELSE IF ~qubit_result_file[sample].has
           THEN /\ logg' = [logg EXCEPT !.missing_info = Append(@, sample)]
                /\ todo' = Tail(todo)
                /\ UNCHANGED <<udf, remote, puts, put_result, qc_flag, stderr, pc, exit_status>>
           ELSE LET conc == qubit_result_file[sample].conc
                    unit == qubit_result_file[sample].unit
                IN  /\ qc_flag' = [qc_flag EXCEPT ![f] = QcFlagFor(conc)]
                    /\ logg' = logg
                    /\ IF conc # OutOfRange /\ ~float(conc).ok
                       THEN \* ValueError leaves main
                            /\ pc' = "q_crashed"
                            /\ exit_status' = 1
                            /\ UNCHANGED <<udf, remote, puts, put_result, stderr, todo>>
                       ELSE \E outcome \in PutOutcomes :
                            LET u == IF conc = OutOfRange THEN udf[f]
                                     ELSE StoreConcentration(udf[f], conc, unit)
                            IN  /\ udf' = [udf EXCEPT ![f] = u]
                                /\ puts' = [puts EXCEPT ![f] = @ + 1]
                                /\ put_result' = outcome
                                /\ remote' = PutFile(f, u, qc_flag'[f], outcome)
                                /\ AfterPut(f, outcome)
    /\ UNCHANGED <<script, attr, changelog, log, cf, ret, args, calls, ext, got,
                   samples, qubit_result_file>>

\* Lines 69-74: the first list of logg that is not empty is logged, and then
\* reading user_info, which was never assigned, ends main with UnboundLocalError.
Summarise ==
    /\ pc = "q_loop"
    /\ todo = <<>>
    /\ \/ /\ \E k \in {"missing", "missing_info"} :
               /\ logg[k] # <<>>
               /\ log' = Append(log, [msg |-> k, samples |-> logg[k]])
       \/ /\ logg.missing = <<>>
          /\ logg.missing_info = <<>>
          /\ log' = log
    /\ pc' = "q_crashed"
    /\ exit_status' = 1
    /\ UNCHANGED <<script, udf, attr, remote, puts, changelog, stderr, cf, ret, args,
                   todo, calls, ext, got, put_result, qvars>>

\* ------------------------------------------------------------ specification
NoArgs == [s_elt |-> "a", s_field_name |-> "conc", d_udf_name |-> NotGiven,
           changelog_f |-> FALSE]

InitCommon ==
    /\ changelog = <<>>
    /\ log = <<>>
    /\ stderr = <<>>
    /\ cf = <<>>
    /\ ret = "none"
    /\ exit_status = 0
    /\ calls = 0
    /\ ext = <<>>
    /\ put_result = "none"
    /\ got = NoneVal

InitNoQubit ==
    /\ qc_flag = <<>>
    /\ samples = <<>>
    /\ qubit_result_file = <<>>
    /\ logg = [missing |-> <<>>, missing_info |-> <<>>]

InitCopy ==
    /\ script = "copy"
    /\ udf \in [Elts -> UdfMaps]
    /\ attr \in AttrMaps
    /\ remote = udf
    /\ puts = [e \in Elts |-> 0]
    /\ pc = "run"
    /\ args \in [s_elt : {"a"}, s_field_name : UdfNames, d_udf_name : DestArgs,
                 changelog_f : BOOLEAN]
    /\ todo = Dests
    /\ InitCommon
    /\ InitNoQubit

InitGet ==
    /\ script = "get"
    /\ udf \in [{"a"} -> MapsOver(GetNames)]
    /\ attr \in [{"a"} -> GetAttrMaps]
    /\ remote = udf
    /\ puts = [e \in {"a"} |-> 0]
    /\ pc = "get"
    /\ args \in [s_elt : {"a"}, s_field_name : GetNames, d_udf_name : {NotGiven},
                 changelog_f : {FALSE}]
    /\ todo = <<>>
    /\ InitCommon
    /\ InitNoQubit

InitQubit ==
    /\ script = "qubit"
    /\ udf \in [Files -> StartUdfs]
    /\ attr = [f \in Files |-> EmptyMap]
    /\ qc_flag = [f \in Files |-> "UNKNOWN"]
    /\ remote = [f \in Files |-> [udf |-> udf[f], qc_flag |-> qc_flag[f]]]
    /\ puts = [f \in Files |-> 0]
    /\ pc = "q_loop"
    /\ args = NoArgs
    /\ todo = [i \in Files |-> i]
    /\ samples \in [Files -> SampleNames]
    /\ qubit_result_file \in UNION {[S -> Measurements] : S \in SUBSET SampleNames}
    /\ logg = [missing |-> <<>>, missing_info |-> <<>>]
    /\ InitCommon

Init == InitCopy \/ InitGet \/ InitQubit

Next ==
    \/ Construct
    \/ ExternalWrite
    \/ CopyUdf
    \/ Discard
    \/ Finish
    \/ GetField
    \/ ProcessFile
    \/ Summarise

Spec == Init /\ [][Next]_vars
\* ================================================================== claims
\* A step that is one call of copy_udf on the current CopyField.
CopyStep == pc = "run" /\ cf # <<>> /\ calls' = calls + 1

\* A put() on some element or file has failed in this run.
PutHasFailed == \E i \in 1 .. Len(stderr) : stderr[i].by = "put"

IsUpdated(r) == r.msg = "Updated"
IsCopying(r) == r.msg = "Copying"

\* C1: when the source value equals the destination snapshot (both None
\* included), copy_udf returns False, writes nothing to any UDF mapping, calls
\* no put() and appends no changelog line, with or without a changelog sink.
C1_EqualNoEffect ==
    [][(CopyStep /\ cf[1].s_field = cf[1].old_dest_udf)
        => /\ ret' = "False"
           /\ udf' = udf
           /\ remote' = remote
           /\ puts' = puts
           /\ put_result' = put_result
           /\ changelog' = changelog]_vars

C1_Witness ==
    /\ script = "copy"
    /\ cf # <<>>
    /\ calls >= 1
    /\ ret = "False"
    /\ cf[1].s_field = NoneVal
    /\ cf[1].old_dest_udf = NoneVal
    /\ args.changelog_f
    /\ puts = [e \in Elts |-> 0]

\* C2: when the source value differs from the destination snapshot, one call
\* of copy_udf appends exactly one changelog line if a sink is given and none
\* otherwise, stores the source value under the destination UDF name, calls
\* put() exactly once, on the destination, and returns True when it succeeds.
C2_ChangedCopies ==
    [][(CopyStep /\ cf[1].s_field # cf[1].old_dest_udf)
        => LET c == cf[1] IN
           /\ Len(changelog') = Len(changelog) + (IF args.changelog_f THEN 1 ELSE 0)
           /\ SubSeq(changelog', 1, Len(changelog)) = changelog
           /\ c.d_udf_name \in DOMAIN udf'[c.d_elt]
           /\ udf'[c.d_elt][c.d_udf_name] = c.s_field
           /\ puts' = [puts EXCEPT ![c.d_elt] = @ + 1]
           /\ (put_result' = "ok" => ret' = "True")]_vars

C2_Witness ==
    /\ script = "copy"
    /\ cf # <<>>
    /\ calls = 1
    /\ cf[1].s_field # cf[1].old_dest_udf
    /\ cf[1].d_udf_name # cf[1].s_field_name
    /\ args.changelog_f
    /\ Len(changelog) = 1
    /\ puts[cf[1].d_elt] = 1
    /\ put_result = "ok"
    /\ ret = "True"

\* C3: when put() fails with TypeError or HTTPError during copy_udf, the
\* process ends with a non-zero exit status: copy_udf returns no value, the
\* after-change log record is not written, and nothing runs afterwards.
C3_FailedPutIsFatal ==
    [][/\ (CopyStep /\ puts' # puts /\ put_result' \in {"TypeError", "HTTPError"})
           => /\ pc' = "exited"
              /\ exit_status' # 0
              /\ ret' = ret
              /\ SelectSeq(log', IsUpdated) = SelectSeq(log, IsUpdated)
       /\ (pc = "exited" => vars' = vars)]_vars

C3_Witness ==
    /\ script = "copy"
    /\ pc = "exited"
    /\ exit_status = 255
    /\ put_result = "HTTPError"
    /\ todo # <<>>
    /\ ret = "none"
    /\ SelectSeq(log, IsUpdated) = <<>>

\* C4: _get_field returns the UDF-mapping value when the name is in the UDF
\* mapping, otherwise the value of the element's native attribute of that
\* same name, and None only when neither exists.
C4_ReadField ==
    pc = "got"
    => LET u == udf[args.s_elt]
           a == attr[args.s_elt]
           field == args.s_field_name
       IN  got = IF field \in DOMAIN u THEN u[field]
                 ELSE IF field \in DOMAIN a THEN a[field]
                 ELSE NoneVal

\* C5 as stated: the destination name is the source field name when none is
\* supplied, and the supplied name whenever one is supplied.
C5_Original ==
    (script = "copy" /\ cf # <<>>)
    => cf[1].d_udf_name = IF args.d_udf_name = NotGiven THEN args.s_field_name
                          ELSE args.d_udf_name

\* The destination name C5 (amended) expects: the supplied name when it is
\* not empty, else the source field name.
C5_Expected == IF args.d_udf_name \in {NotGiven, ""} THEN args.s_field_name
               ELSE args.d_udf_name

\* C5 (amended): constructing a CopyField without a destination name, or with
\* an empty one, takes the source field name: the snapshot is read under that
\* name and a later copy writes under it; a non-empty supplied name is used
\* instead. Construction writes nothing and calls no put().
C5_DefaultName ==
    [][/\ (pc = "run" /\ cf = <<>> /\ cf' # <<>>)
           => LET d == Head(todo) IN
              /\ cf'[1].d_udf_name = C5_Expected
              /\ cf'[1].s_field_name = args.s_field_name
              /\ cf'[1].old_dest_udf = _get_field(udf[d], attr[d], C5_Expected)
              /\ UNCHANGED <<udf, remote, puts, put_result, changelog>>
       /\ (CopyStep /\ cf[1].s_field # cf[1].old_dest_udf)
           => /\ C5_Expected \in DOMAIN udf'[cf[1].d_elt]
              /\ udf'[cf[1].d_elt][C5_Expected] = cf[1].s_field]_vars

C5_Witness ==
    /\ script = "copy"
    /\ args.d_udf_name = NotGiven
    /\ cf # <<>>
    /\ cf[1].d_udf_name = args.s_field_name
    /\ cf[1].s_field # cf[1].old_dest_udf
    /\ calls = 1
    /\ ret = "True"
    /\ udf[cf[1].d_elt][args.s_field_name] = cf[1].s_field

\* The number a concentration text of the Qubit file stands for, in millionths.
C6_Number(text) ==
    CASE text = <<"5", "0", "0">> -> 500 * Scale
      [] text = <<"1", "2", ".", "5">> -> 12 * Scale + Scale \div 2
      [] text = <<"0">> -> 0

\* C6: for a target file whose sample has a "Sample Concentration" entry
\* (conc, unit): with conc "Out Of Range" the qc flag becomes FAILED and the
\* UDFs stay as they are; otherwise the qc flag becomes PASSED, "Concentration"
\* becomes conc/1000 for unit ng/mL and conc for any other unit, and
\* "Conc. Units" becomes ng/ul.
C6_QubitNormalisation ==
    [][(/\ pc = "q_loop"
        /\ todo # <<>>
        /\ todo' # todo
        /\ samples[Head(todo)] \in DOMAIN qubit_result_file
        /\ qubit_result_file[samples[Head(todo)]].has)
        => LET f == Head(todo)
               m == qubit_result_file[samples[f]]
           IN  IF m.conc = OutOfRange
               THEN /\ qc_flag'[f] = "FAILED"
                    /\ udf'[f] = udf[f]
               ELSE /\ qc_flag'[f] = "PASSED"
                    /\ udf'[f]["Concentration"] =
                         (IF m.unit = "ng/mL" THEN C6_Number(m.conc) \div 1000
                          ELSE C6_Number(m.conc))
                    /\ udf'[f]["Conc. Units"] = "ng/ul"]_vars

C6_Witness ==
    /\ script = "qubit"
    /\ todo = <<>>
    /\ samples[1] \in DOMAIN qubit_result_file
    /\ qubit_result_file[samples[1]].has
    /\ qubit_result_file[samples[1]].conc = <<"5", "0", "0">>
    /\ qubit_result_file[samples[1]].unit = "ng/mL"
    /\ qc_flag[1] = "PASSED"
    /\ udf[1]["Concentration"] = Scale \div 2
    /\ udf[1]["Conc. Units"] = "ng/ul"
    /\ qc_flag[2] = "FAILED"
    /\ DOMAIN udf[2] # {}
    /\ udf[2]["Conc. Units"] = "ug/mL"

\* C7 as stated: in every script run, the loop of the Qubit copy script
\* included, once a put() has failed no later entity is modified or persisted.
C7_Original ==
    [][PutHasFailed
        => UNCHANGED <<udf, remote, puts, qc_flag>>]_vars

\* C7 (amended): a put() that fails inside CopyField.copy_udf is fatal to the
\* run, and nothing is modified or persisted afterwards. The Qubit copy script
\* instead catches a failed put(), reports it on stderr and goes on: the run
\* does not end there, and the later target files are modified and put() as
\* usual.
C7_FatalOnlyInCopyField ==
    [][/\ (script = "copy" /\ PutHasFailed)
           => (pc = "exited" /\ exit_status # 0 /\ vars' = vars)
       /\ (pc = "q_loop" /\ puts' # puts /\ put_result' # "ok")
           => /\ pc' = "q_loop"
              /\ exit_status' = 0
              /\ todo' = Tail(todo)
              /\ stderr' = Append(stderr, [file |-> Head(todo), by |-> "put",
                                           e |-> put_result'])
       /\ (/\ script = "qubit"
           /\ PutHasFailed
           /\ todo # <<>>
           /\ todo' # todo
           /\ samples[Head(todo)] \in DOMAIN qubit_result_file
           /\ qubit_result_file[samples[Head(todo)]].has)
           => /\ puts'[Head(todo)] = puts[Head(todo)] + 1
              /\ qc_flag'[Head(todo)] # "UNKNOWN"]_vars

C7_Witness ==
    /\ script = "qubit"
    /\ Len(stderr) = 2
    /\ stderr[1] = [file |-> 1, by |-> "put", e |-> "HTTPError"]
    /\ puts[2] = 1
    /\ put_result = "ok"
    /\ remote[2].qc_flag = "PASSED"
    /\ remote[1].qc_flag = "UNKNOWN"

\* C8 as stated: with a changelog sink, in every reachable state the lines of
\* the changelog correspond one-to-one to the value-changing copies whose
\* put() succeeded.
C8_Original ==
    (script = "copy" /\ args.changelog_f)
    => LET done == SelectSeq(log, IsUpdated) IN
       /\ Len(changelog) = Len(done)
       /\ \A i \in 1 .. Len(done) :
            /\ changelog[i].si = done[i].to
            /\ changelog[i].su = done[i].su
            /\ changelog[i].nv = done[i].nv

\* C8 (amended): with a changelog sink, the lines of the changelog correspond
\* one-to-one to the value-changing copy_udf calls that reached put(): each
\* one whose put() succeeded has exactly one line, which records the change
\* that was persisted, and a call whose put() failed, which ends the process,
\* leaves one last line for a change that was not persisted. Without a sink
\* the changelog stays empty.
C8_LinesAreAttempts ==
    script = "copy"
    => IF ~args.changelog_f
       THEN changelog = <<>>
       ELSE LET done == SelectSeq(log, IsUpdated)
                tried == SelectSeq(log, IsCopying)
            IN  /\ Len(changelog) = Len(tried)
                /\ Len(changelog) = Len(done) + (IF pc = "exited" THEN 1 ELSE 0)
                /\ \A i \in 1 .. Len(done) :
                     /\ changelog[i].si = done[i].to
                     /\ changelog[i].su = done[i].su
                     /\ changelog[i].nv = done[i].nv
                     /\ changelog[i].nv # changelog[i].su

C8_Witness ==
    /\ script = "copy"
    /\ args.changelog_f
    /\ pc = "exited"
    /\ Len(changelog) = 2
    /\ Len(SelectSeq(log, IsUpdated)) = 1
    /\ changelog[2].si = "b"
    /\ remote["b"] # udf["b"]

\* C9: copy_udf decides on the values captured at construction alone. After
\* another writer changed the destination field, a call whose snapshots
\* differ still stores the snapshotted source value, calls put() and logs the
\* snapshot as the prior value, even if the destination already held that
\* value; a call whose snapshots are equal returns False and writes nothing,
\* even if the destination has moved away.
C9_SnapshotDecides ==
    [][(CopyStep /\ ext # <<>> /\ ext[1].elt = cf[1].d_elt /\ calls = 0)
        => LET c == cf[1] IN
           IF c.s_field # c.old_dest_udf
           THEN /\ c.d_udf_name \in DOMAIN udf'[c.d_elt]
                /\ udf'[c.d_elt][c.d_udf_name] = c.s_field
                /\ puts'[c.d_elt] = puts[c.d_elt] + 1
                /\ (put_result' = "ok"
                     => /\ ret' = "True"
                        /\ remote'[c.d_elt][c.d_udf_name] = c.s_field
                        /\ log'[Len(log')].su = c.old_dest_udf)
                /\ (args.changelog_f
                     => changelog'[Len(changelog')].su = c.old_dest_udf)
           ELSE /\ ret' = "False"
                /\ UNCHANGED <<udf, remote, puts, changelog>>]_vars

C9_Witness ==
    /\ script = "copy"
    /\ cf # <<>>
    /\ calls = 1
    /\ todo = <<>>
    /\ ext = <<[where |-> "object", elt |-> cf[1].d_elt, v |-> cf[1].s_field]>>
    /\ cf[1].s_field # cf[1].old_dest_udf
    /\ cf[1].old_dest_udf # NoneVal
    /\ args.changelog_f
    /\ ret = "True"
    /\ puts[cf[1].d_elt] = 1
    /\ changelog[Len(changelog)].su = cf[1].old_dest_udf

\* C10: with no failing put(), a second or later call of copy_udf on the same
\* CopyField leaves the destination's field values, on the object and on the
\* server, as the call before left them, and returns what that call returned.
C10_Idempotent ==
    [][(CopyStep /\ calls >= 1 /\ put_result' \notin {"TypeError", "HTTPError"})
        => /\ udf' = udf
           /\ remote' = remote
           /\ ret' = ret]_vars

C10_Witness ==
    /\ script = "copy"
    /\ cf # <<>>
    /\ calls = 2
    /\ pc = "run"
    /\ ret = "True"
    /\ puts[cf[1].d_elt] = 2
    /\ cf[1].s_field # cf[1].old_dest_udf
====
